---- MODULE Spec2Model ----
(***************************************************************************)
(* Model of the CLEASE Au-Cu tutorial notebook                             *)
(* (CLEASE/part1_clease_script.ipynb): the structure database, the         *)
(* relaxation loop, the evaluation cell, the ground-state cells and the    *)
(* minimum-energy cell, as the notebook's cells drive them.                *)
(***************************************************************************)
EXTENDS Integers, Sequences, FiniteSets, TLC

\* ---------------------------------------------------------------- bounds
MaxStructs == 2      \* initial structures the relaxation workflow may generate
MaxRows == 3         \* initial structures in a database the later cells meet
MaxNonConv == 1      \* optimizer runs that may stop short of fmax
MaxScan == 4         \* number of alpha values alpha_CV may scan
Denom == 10          \* concentrations are the multiples of 1/Denom

\* ------------------------------------------------------ program constants
NAtomsGs == 216      \* primitive cell (one atom) repeated 6 x 6 x 6
StructPerGen == 10   \* struct_per_gen of the initial pool

\* ------------------------------------------------------------ value sets
FormulaUnits == {"Au3Cu1", "Au1Cu1", "Au1Cu3"}
Energies == {-2, -1}

\* A key that a row may lack is a sequence of length 0 or 1.
None == <<>>
Some(x) == <<x>>

VARIABLES
    db,            \* aucu_script.db: sequence of rows, row id = position
    lazySelect,    \* whether db.select() is evaluated row by row
    relaxPc,       \* relaxation cell: "idle", "running", "done", "failed"
    selected,      \* ids db.select(converged=False) matched when the loop began
    cursor,        \* id of the row the loop handled last
    startUnconv,   \* history: ids with converged=False when the loop began
    startLen,      \* history: number of entries when the loop began
    relaxed,       \* history: ids given to opt.run in this execution, in order
    updated,       \* history: ids given to update_db in this execution, in order
    fmaxReached,   \* history: ids whose opt.run reached fmax
    error,         \* the exception the last failing cell raised, or ""
    alphas, cvs,   \* arrays returned by eva.alpha_CV
    idx, alpha,    \* cvs.argmin() and alphas[idx]
    eva,           \* Evaluate object: the alpha it fits with and its ECIs
    eciFile,       \* cluster_name_eci_l1.json: None or Some(text)
    lastWritten,   \* history: the mapping the last save_eci was given
    eci,           \* the dictionary json.load returned
    templateFiles, \* whether the template_*.traj files are on disk
    template_list, \* None or Some(list of template compositions)
    names, images, \* lists of the minimum-energy cell
    mePc, meBlock, \* minimum-energy cell: position and block number
    poolPc,        \* initial pool cell: "idle", "extrema", "random", "done"
    cAu, cCu,      \* a concentration pair, in units of 1/Denom
    admitted       \* which of the three Concentration set-ups admit it

relaxVars == <<relaxPc, selected, cursor, startUnconv, startLen, relaxed, updated>>
scanVars == <<alphas, cvs, idx, alpha, eva>>
fileVars == <<eciFile, lastWritten>>
tmplVars == <<templateFiles, template_list>>
meVars == <<names, images, mePc, meBlock>>
concVars == <<cAu, cCu, admitted>>

vars == <<db, lazySelect, relaxVars, fmaxReached, error, scanVars, fileVars,
          eci, tmplVars, meVars, poolPc, concVars>>

\* ------------------------------------------------------------- database
Ids(d) == [i \in 1..Len(d) |-> i]

PrimitiveCell ==
    [id |-> 1, name |-> <<"primitive_cell", 0>>, struct_type |-> None,
     formula_unit |-> None, gen |-> None, converged |-> None,
     started |-> None, queued |-> None, final_struct_id |-> None,
     energy |-> None, natoms |-> 1]

IsInitial(r) == r.struct_type = Some("initial")

InitialIds(d) == {i \in 1..Len(d) : IsInitial(d[i])}

NumWithFormula(d, fu) ==
    Cardinality({i \in InitialIds(d) : d[i].formula_unit = Some(fu)})

NewInitialRow(d, fu, g, n) ==
    [id |-> Len(d) + 1, name |-> <<fu, NumWithFormula(d, fu)>>,
     struct_type |-> Some("initial"), formula_unit |-> Some(fu),
     gen |-> g, converged |-> Some(FALSE), started |-> Some(FALSE),
     queued |-> Some(FALSE), final_struct_id |-> None, energy |-> None,
     natoms |-> n]

InsertStructure(d, fu, g, n) == Append(d, NewInitialRow(d, fu, g, n))

SelectUnconverged(d) ==
    SelectSeq(Ids(d), LAMBDA i : d[i].converged = Some(FALSE))

\* Variant: the result entry is written with the initial row's key-value pairs.
FinalRowCopiesKeys(d, uid, e) ==
    [d[uid] EXCEPT !.id = Len(d) + 1, !.struct_type = Some("final"),
                   !.energy = Some(e)]

FinalRow(d, uid, e) ==
    [id |-> Len(d) + 1, name |-> d[uid].name, struct_type |-> Some("final"),
     formula_unit |-> None, gen |-> None, converged |-> None,
     started |-> None, queued |-> None, final_struct_id |-> None,
     energy |-> Some(e), natoms |-> d[uid].natoms]

\* Variant: the initial row keeps converged=False.
UpdateDbKeepsFlag(d, uid, e) ==
    Append([d EXCEPT ![uid].started = None,
                     ![uid].queued = None,
                     ![uid].final_struct_id = Some(Len(d) + 1)],
           FinalRow(d, uid, e))

\* Variant: final_struct_id is taken before the result entry is written.
UpdateDbStaleId(d, uid, e) ==
    Append([d EXCEPT ![uid].converged = Some(TRUE),
                     ![uid].started = None,
                     ![uid].queued = None,
                     ![uid].final_struct_id = Some(Len(d))],
           FinalRow(d, uid, e))

UpdateDb(d, uid, e) ==
    Append([d EXCEPT ![uid].converged = Some(TRUE),
                     ![uid].started = None,
                     ![uid].queued = None,
                     ![uid].final_struct_id = Some(Len(d) + 1)],
           FinalRow(d, uid, e))

\* ------------------------------------------------------ relaxation cell
NoCellRunning ==
    /\ relaxPc # "running"
    /\ mePc \notin {"block", "view"}
    /\ poolPc \notin {"extrema", "random"}

\* Rows the iterator of db.select(converged=False) has still to yield.
Remaining ==
    IF lazySelect
    THEN SelectSeq(Ids(db), LAMBDA i : i > cursor /\ db[i].converged = Some(FALSE))
    ELSE SelectSeq(selected, LAMBDA i : i > cursor)

NonConverged ==
    {i \in InitialIds(db) : db[i].converged = Some(TRUE) /\ i \notin fmaxReached}

\* Another cell runs: the loop's iterator and its bookkeeping are gone.
LeaveRelaxCell ==
    /\ relaxPc' = "idle"
    /\ selected' = <<>>
    /\ cursor' = 0
    /\ startUnconv' = {}
    /\ startLen' = 0
    /\ relaxed' = <<>>
    /\ updated' = <<>>

RelaxStart ==
    /\ NoCellRunning
    /\ relaxPc' = "running"
    /\ selected' = SelectUnconverged(db)
    /\ cursor' = 0
    /\ startUnconv' = {i \in 1..Len(db) : db[i].converged = Some(FALSE)}
    /\ startLen' = Len(db)
    /\ relaxed' = <<>>
    /\ updated' = <<>>
    /\ error' = ""
    /\ UNCHANGED <<db, lazySelect, fmaxReached, scanVars, fileVars, eci,
                   tmplVars, meVars, poolPc, concVars>>

\* Variant: update_db is called only for a run that reached fmax.
RelaxIterateChecksConvergence ==
    /\ relaxPc = "running"
    /\ Remaining # <<>>
    /\ LET uid == Head(Remaining) IN
       /\ cursor' = uid
       /\ relaxed' = Append(relaxed, uid)
       /\ \E reached \in BOOLEAN, e \in Energies :
            /\ fmaxReached' = IF reached THEN fmaxReached \cup {uid} ELSE fmaxReached
            /\ db' = IF reached THEN UpdateDb(db, uid, e) ELSE db
            /\ updated' = IF reached THEN Append(updated, uid) ELSE updated
    /\ UNCHANGED <<lazySelect, relaxPc, selected, startUnconv, startLen, error,
                   scanVars, fileVars, eci, tmplVars, meVars, poolPc, concVars>>

\* One pass of the loop body: opt.run returns (having reached fmax or not,
\* the notebook does not look), then update_db stores the result.
RelaxIterate ==
    /\ relaxPc = "running"
    /\ Remaining # <<>>
    /\ LET uid == Head(Remaining) IN
       /\ cursor' = uid
       /\ relaxed' = Append(relaxed, uid)
       /\ \E reached \in BOOLEAN, e \in Energies :
            /\ reached \/ Cardinality(NonConverged) < MaxNonConv
            /\ fmaxReached' = IF reached THEN fmaxReached \cup {uid} ELSE fmaxReached
            /\ db' = UpdateDb(db, uid, e)
            /\ updated' = Append(updated, uid)
    /\ UNCHANGED <<lazySelect, relaxPc, selected, startUnconv, startLen, error,
                   scanVars, fileVars, eci, tmplVars, meVars, poolPc, concVars>>

\* opt.run raises: the cell ends inside the loop body, before update_db.
RelaxRaise ==
    /\ relaxPc = "running"
    /\ Remaining # <<>>
    /\ cursor' = Head(Remaining)
    /\ relaxed' = Append(relaxed, Head(Remaining))
    /\ relaxPc' = "failed"
    /\ error' = "OptimizerError"
    /\ UNCHANGED <<db, lazySelect, selected, startUnconv, startLen, updated,
                   fmaxReached, scanVars, fileVars, eci, tmplVars, meVars,
                   poolPc, concVars>>

RelaxDone ==
    /\ relaxPc = "running"
    /\ Remaining = <<>>
    /\ relaxPc' = "done"
    /\ UNCHANGED <<db, lazySelect, selected, cursor, startUnconv, startLen,
                   relaxed, updated, fmaxReached, error, scanVars, fileVars,
                   eci, tmplVars, meVars, poolPc, concVars>>

\* ------------------------------------------------------ evaluation cell
ClusterNames == <<"c0", "c1_0", "c2_d0000_0_00">>

EciDicts ==
    { ("c0" :> -3) @@ ("c1_0" :> 2),
      ("c0" :> -3) @@ ("c2_d0000_0_00" :> -1) }

CvScores == {1, 2, 3}

\* alpha_CV scans n values spaced evenly on a logarithmic scale.
AlphaGrid(n) == [i \in 1..n |-> 2^i]

AllScans ==
    UNION { { [alphas |-> AlphaGrid(n), cvs |-> c] : c \in [1..n -> CvScores] }
            : n \in 1..MaxScan }

WorkflowScans ==
    { [alphas |-> AlphaGrid(2), cvs |-> <<1, 2>>],
      [alphas |-> AlphaGrid(2), cvs |-> <<2, 1>>] }

\* cvs.argmin(): the position of the first smallest element (counted from 1).
RECURSIVE ArgMinFrom(_, _, _)
ArgMinFrom(c, i, best) ==
    IF i > Len(c) THEN best
    ELSE ArgMinFrom(c, i + 1, IF c[i] < c[best] THEN i ELSE best)

\* Variant: the last smallest element wins.
RECURSIVE ArgMinLastFrom(_, _, _)
ArgMinLastFrom(c, i, best) ==
    IF i > Len(c) THEN best
    ELSE ArgMinLastFrom(c, i + 1, IF c[i] <= c[best] THEN i ELSE best)

ArgMinLast(c) == ArgMinLastFrom(c, 2, 1)

ArgMin(c) == ArgMinFrom(c, 2, 1)

\* json.dump / json.load of a name -> coefficient dictionary.
\* Variant: the sign is lost in writing.
JsonNumberUnsigned(v) == [minus |-> FALSE, digits |-> IF v < 0 THEN -v ELSE v]

JsonNumber(v) == [minus |-> v < 0, digits |-> IF v < 0 THEN -v ELSE v]

ParseNumber(t) == IF t.minus THEN -t.digits ELSE t.digits

JsonDump(d) ==
    LET keys == SelectSeq(ClusterNames, LAMBDA n : n \in DOMAIN d)
    IN [i \in 1..Len(keys) |-> <<keys[i], JsonNumber(d[keys[i]])>>]

JsonLoad(text) ==
    [n \in {text[i][1] : i \in 1..Len(text)} |->
        ParseNumber(text[CHOOSE i \in 1..Len(text) : text[i][1] = n][2])]

EvaluateCell(scans) ==
    /\ NoCellRunning
    /\ \E scan \in scans, d \in EciDicts :
         /\ alphas' = scan.alphas
         /\ cvs' = scan.cvs
         /\ idx' = ArgMin(cvs')
         /\ alpha' = alphas'[idx']
         /\ eva' = [alpha |-> Some(alpha'), eci |-> Some(d)]
         /\ eciFile' = Some(JsonDump(d))
         /\ lastWritten' = Some(d)
    /\ error' = ""
    /\ LeaveRelaxCell
    /\ UNCHANGED <<db, lazySelect, fmaxReached, eci, tmplVars, meVars, poolPc,
                   concVars>>

\* Evaluate() or alpha_CV raises: nothing of the cell has taken effect.
EvaluateRaise ==
    /\ NoCellRunning
    /\ error' = "EvaluateError"
    /\ LeaveRelaxCell
    /\ UNCHANGED <<db, lazySelect, fmaxReached, scanVars, fileVars, eci,
                   tmplVars, meVars, poolPc, concVars>>

\* --------------------------------------------------- ground-state cells
TemplateFormulas == <<"Au3Cu1", "Au1Cu1", "Au1Cu3">>

RECURSIVE InsertAll(_, _)
InsertAll(d, fus) ==
    IF fus = <<>> THEN d
    ELSE InsertAll(InsertStructure(d, Head(fus), None, NAtomsGs), Tail(fus))

\* Random-composition cell, struct_per_gen = 1.
GsRandomCell(cap) ==
    /\ NoCellRunning
    /\ eciFile # None
    /\ Cardinality(InitialIds(db)) < cap
    /\ eci' = Some(JsonLoad(eciFile[1]))
    /\ \E fu \in FormulaUnits : db' = InsertStructure(db, fu, None, NAtomsGs)
    /\ error' = ""
    /\ LeaveRelaxCell
    /\ UNCHANGED <<lazySelect, fmaxReached, scanVars, fileVars, tmplVars,
                   meVars, poolPc, concVars>>

\* open() of the ECI file raises in either ground-state cell.
GsCellNoFile ==
    /\ NoCellRunning
    /\ eciFile = None
    /\ error' = "FileNotFoundError"
    /\ LeaveRelaxCell
    /\ UNCHANGED <<db, lazySelect, fmaxReached, scanVars, fileVars, eci,
                   tmplVars, meVars, poolPc, concVars>>

\* Template cell: read() of the three template_*.traj files.
TemplatesCell ==
    /\ NoCellRunning
    /\ templateFiles
    /\ template_list' = Some(TemplateFormulas)
    /\ error' = ""
    /\ LeaveRelaxCell
    /\ UNCHANGED <<db, lazySelect, fmaxReached, scanVars, fileVars, eci,
                   templateFiles, meVars, poolPc, concVars>>

TemplatesCellNoFile ==
    /\ NoCellRunning
    /\ ~templateFiles
    /\ error' = "FileNotFoundError"
    /\ LeaveRelaxCell
    /\ UNCHANGED <<db, lazySelect, fmaxReached, scanVars, fileVars, eci,
                   tmplVars, meVars, poolPc, concVars>>

\* The templates, in order, whose positions are in S.
ChosenTemplates(S) ==
    SelectSeq(Ids(template_list[1]), LAMBDA k : k \in S)

\* Fixed-composition cell, struct_per_gen = 3: a template whose ground state
\* is already in the database yields no new structure.
GsFixedCell(cap) ==
    /\ NoCellRunning
    /\ eciFile # None
    /\ template_list # None
    /\ eci' = Some(JsonLoad(eciFile[1]))
    /\ \E S \in SUBSET (1..Len(template_list[1])) :
         /\ Cardinality(InitialIds(db)) + Cardinality(S) <= cap
         /\ db' = InsertAll(db, [k \in 1..Cardinality(S) |->
                                   template_list[1][ChosenTemplates(S)[k]]])
    /\ error' = ""
    /\ LeaveRelaxCell
    /\ UNCHANGED <<lazySelect, fmaxReached, scanVars, fileVars, tmplVars,
                   meVars, poolPc, concVars>>

\* The ECI file is read, then template_list turns out not to be defined.
GsFixedCellNoTemplates ==
    /\ NoCellRunning
    /\ eciFile # None
    /\ template_list = None
    /\ eci' = Some(JsonLoad(eciFile[1]))
    /\ error' = "NameError"
    /\ LeaveRelaxCell
    /\ UNCHANGED <<db, lazySelect, fmaxReached, scanVars, fileVars, tmplVars,
                   meVars, poolPc, concVars>>

\* -------------------------------------------------- minimum-energy cell
BlockFormulas == <<"Au3Cu1", "Au1Cu1", "Au1Cu3">>

\* db.select('formula_unit=<fu>,struct_type=initial')
SelectFormula(d, fu) ==
    SelectSeq(Ids(d), LAMBDA i : IsInitial(d[i]) /\ d[i].formula_unit = Some(fu))

\* energy / natoms of x below that of y (natoms > 0).
PerAtomLess(x, y) == x.energy * y.natoms < y.energy * x.natoms

RECURSIVE InsertSorted(_, _)
InsertSorted(s, x) ==
    IF s = <<>> THEN <<x>>
    ELSE IF PerAtomLess(x, Head(s)) THEN <<x>> \o s
    ELSE <<Head(s)>> \o InsertSorted(Tail(s), x)

\* list.sort(key=lambda x: x[1]): ascending and stable.
RECURSIVE SortByEnergy(_)
SortByEnergy(l) ==
    IF l = <<>> THEN <<>>
    ELSE InsertSorted(SortByEnergy(SubSeq(l, 1, Len(l) - 1)), l[Len(l)])

\* The (name, energy) tuples one block collects.
BlockList(d, fu) ==
    LET rows == SelectFormula(d, fu)
    IN [k \in 1..Len(rows) |->
          [name |-> d[rows[k]].name,
           energy |-> d[d[rows[k]].final_struct_id[1]].energy[1],
           natoms |-> d[rows[k]].natoms]]

\* The exception one block raises on database d, or "".
BlockError(d, fu) ==
    LET rows == SelectFormula(d, fu)
    IN IF \E k \in 1..Len(rows) : d[rows[k]].final_struct_id = None
       THEN "AttributeError"
       ELSE IF rows = <<>> THEN "IndexError" ELSE ""

MinEnergyStart ==
    /\ NoCellRunning
    /\ names' = <<>>
    /\ mePc' = "block"
    /\ meBlock' = 1
    /\ error' = ""
    /\ LeaveRelaxCell
    /\ UNCHANGED <<db, lazySelect, fmaxReached, scanVars, fileVars, eci,
                   tmplVars, images, poolPc, concVars>>

MinEnergyBlock ==
    /\ mePc = "block"
    /\ BlockError(db, BlockFormulas[meBlock]) = ""
    /\ names' = Append(names, SortByEnergy(BlockList(db, BlockFormulas[meBlock]))[1].name)
    /\ IF meBlock < Len(BlockFormulas)
       THEN meBlock' = meBlock + 1 /\ mePc' = "block"
       ELSE meBlock' = meBlock /\ mePc' = "view"
    /\ UNCHANGED <<db, lazySelect, relaxVars, fmaxReached, error, scanVars,
                   fileVars, eci, tmplVars, images, poolPc, concVars>>

\* Variant: a failing block appends a placeholder and the cell goes on.
MinEnergyBlockRecovers ==
    /\ mePc = "block"
    /\ BlockError(db, BlockFormulas[meBlock]) # ""
    /\ names' = Append(names, <<"unknown", 0>>)
    /\ IF meBlock < Len(BlockFormulas)
       THEN meBlock' = meBlock + 1 /\ mePc' = "block"
       ELSE meBlock' = meBlock /\ mePc' = "failed"
    /\ UNCHANGED <<db, lazySelect, relaxVars, fmaxReached, error, scanVars,
                   fileVars, eci, tmplVars, images, poolPc, concVars>>

MinEnergyBlockRaises ==
    /\ mePc = "block"
    /\ BlockError(db, BlockFormulas[meBlock]) # ""
    /\ error' = BlockError(db, BlockFormulas[meBlock])
    /\ mePc' = "failed"
    /\ UNCHANGED <<db, lazySelect, relaxVars, fmaxReached, scanVars, fileVars,
                   eci, tmplVars, names, images, meBlock, poolPc, concVars>>

\* db.get('name=<name>,struct_type=initial') for every name, then view().
MinEnergyView ==
    /\ mePc = "view"
    /\ images' = [k \in 1..Len(names) |->
                    CHOOSE i \in InitialIds(db) : db[i].name = names[k]]
    /\ mePc' = "done"
    /\ UNCHANGED <<db, lazySelect, relaxVars, fmaxReached, error, scanVars,
                   fileVars, eci, tmplVars, names, meBlock, poolPc, concVars>>

\* ---------------------------------------------------- initial pool cell
ExtremumFormulas == <<"Au1", "Cu1">>

NumInGen(d, g) ==
    Cardinality({i \in InitialIds(d) : d[i].gen = Some(g)})

\* Variant: every entry of the database is counted, not those of generation g.
RemainingCountsAllRows(d, g) == StructPerGen - Len(d)

\* Structures generate_random_structures has still to add to generation g.
RemainingInGen(d, g) == StructPerGen - NumInGen(d, g)

\* Atoms in one formula unit.
FormulaAtoms(fu) ==
    CASE fu \in {"Au1", "Cu1"} -> 1
      [] fu = "Au1Cu1" -> 2
      [] OTHER -> 4

PoolStart ==
    /\ NoCellRunning
    /\ poolPc = "idle"
    /\ poolPc' = "extrema"
    /\ error' = ""
    /\ LeaveRelaxCell
    /\ UNCHANGED <<db, lazySelect, fmaxReached, scanVars, fileVars, eci,
                   tmplVars, meVars, concVars>>

PoolExtremum ==
    /\ poolPc = "extrema"
    /\ LET k == NumInGen(db, 0) + 1 IN
       /\ db' = InsertStructure(db, ExtremumFormulas[k], Some(0),
                                FormulaAtoms(ExtremumFormulas[k]))
       /\ poolPc' = IF k = Len(ExtremumFormulas) THEN "random" ELSE "extrema"
    /\ UNCHANGED <<lazySelect, relaxVars, fmaxReached, error, scanVars,
                   fileVars, eci, tmplVars, meVars, concVars>>

PoolRandom ==
    /\ poolPc = "random"
    /\ RemainingInGen(db, 0) > 0
    /\ \E fu \in FormulaUnits :
         db' = InsertStructure(db, fu, Some(0), FormulaAtoms(fu))
    /\ UNCHANGED <<lazySelect, relaxVars, fmaxReached, error, scanVars,
                   fileVars, eci, tmplVars, meVars, poolPc, concVars>>

PoolDone ==
    /\ poolPc = "random"
    /\ RemainingInGen(db, 0) <= 0
    /\ poolPc' = "done"
    /\ UNCHANGED <<db, lazySelect, relaxVars, fmaxReached, error, scanVars,
                   fileVars, eci, tmplVars, meVars, concVars>>

\* ------------------------------------------- concentration constraints
\* A c >= b, with c in units of 1/Denom.
LowerBounds(A, b, c) ==
    \A r \in 1..Len(A) : A[r][1] * c[1] + A[r][2] * c[2] >= b[r] * Denom

\* A c = b
Equalities(A, b, c) ==
    \A r \in 1..Len(A) : A[r][1] * c[1] + A[r][2] * c[2] = b[r] * Denom

\* Concentration(basis_elements=[['Au', 'Cu']]): A_eq, b_eq and the implicit
\* lower bounds.
DefaultConc(c) ==
    /\ Equalities(<< <<1, 1>> >>, <<1>>, c)
    /\ LowerBounds(<< <<1, 0>>, <<0, 1>> >>, <<0, 0>>, c)

\* Concentration(..., A_lb=[[2, 0]], b_lb=[1])
AdmitLb(c) ==
    /\ DefaultConc(c)
    /\ LowerBounds(<< <<2, 0>> >>, <<1>>, c)

\* set_conc_formula_unit(["Au<x>Cu<1-x>"], variable_range={"x": (0, 0.5)})
AdmitFormula(c) ==
    \E x \in 0..Denom :
        /\ 2 * x <= Denom
        /\ c[1] = x
        /\ c[2] = Denom - x

\* set_conc_ranges(ranges=[[(0, 0.5), (0.5, 1)]])
AdmitRanges(c) ==
    /\ DefaultConc(c)
    /\ 0 <= c[1] /\ 2 * c[1] <= Denom
    /\ Denom <= 2 * c[2] /\ c[2] <= Denom

CheckConcentration ==
    /\ admitted = None
    /\ admitted' = Some([lb |-> AdmitLb(<<cAu, cCu>>),
                         formula |-> AdmitFormula(<<cAu, cCu>>),
                         ranges |-> AdmitRanges(<<cAu, cCu>>)])
    /\ UNCHANGED <<db, lazySelect, relaxVars, fmaxReached, error, scanVars,
                   fileVars, eci, tmplVars, meVars, poolPc, cAu, cCu>>

\* ------------------------------------------------------- specifications
\* Kernel and files before any cell after the settings cell has run.
Fresh ==
    /\ relaxPc = "idle"
    /\ selected = <<>>
    /\ cursor = 0
    /\ startUnconv = {}
    /\ startLen = 0
    /\ relaxed = <<>>
    /\ updated = <<>>
    /\ fmaxReached = {}
    /\ error = ""
    /\ alphas = <<>>
    /\ cvs = <<>>
    /\ idx = 0
    /\ alpha = 0
    /\ eva = [alpha |-> None, eci |-> None]
    /\ eciFile = None
    /\ lastWritten = None
    /\ eci = None
    /\ template_list = None
    /\ names = <<>>
    /\ images = <<>>
    /\ mePc = "idle"
    /\ meBlock = 0
    /\ poolPc = "idle"
    /\ admitted = None

\* Relaxation workflow: evaluation, ground-state generation, relaxation.
Init ==
    /\ Fresh
    /\ db = <<PrimitiveCell>>
    /\ lazySelect \in BOOLEAN
    /\ templateFiles = TRUE
    /\ cAu = 0
    /\ cCu = 0

Next ==
    \/ EvaluateCell(WorkflowScans)
    \/ EvaluateRaise
    \/ GsRandomCell(MaxStructs)
    \/ GsCellNoFile
    \/ RelaxStart
    \/ RelaxIterate
    \/ RelaxRaise
    \/ RelaxDone

Spec == Init /\ [][Next]_vars

\* Evaluation and ground-state cells, with the template files present or not.
InitGs ==
    /\ Fresh
    /\ db = <<PrimitiveCell>>
    /\ lazySelect = FALSE
    /\ templateFiles \in BOOLEAN
    /\ cAu = 0
    /\ cCu = 0

NextGs ==
    \/ EvaluateCell(WorkflowScans)
    \/ EvaluateRaise
    \/ TemplatesCell
    \/ TemplatesCellNoFile
    \/ GsRandomCell(MaxRows)
    \/ GsFixedCell(MaxRows)
    \/ GsFixedCellNoTemplates
    \/ GsCellNoFile

SpecGs == InitGs /\ [][NextGs]_vars

\* The evaluation cell over every scan alpha_CV may return.
NextAlpha ==
    \/ EvaluateCell(AllScans)
    \/ EvaluateRaise

SpecAlpha == Init /\ [][NextAlpha]_vars

\* The initial pool cell on the database the settings cell left.
NextPool ==
    \/ PoolStart
    \/ PoolExtremum
    \/ PoolRandom
    \/ PoolDone

SpecPool == Init /\ [][NextPool]_vars

\* The three Concentration set-ups over a grid of concentration pairs.
InitConc ==
    /\ Fresh
    /\ db = <<PrimitiveCell>>
    /\ lazySelect = FALSE
    /\ templateFiles = TRUE
    /\ cAu \in -1..(Denom + 1)
    /\ cCu \in -1..(Denom + 1)

NextConc == CheckConcentration

SpecConc == InitConc /\ [][NextConc]_vars

\* The late cells on the databases the relaxation workflow leaves behind.
RowKinds == [fu : FormulaUnits, result : {None} \cup {Some(e) : e \in Energies}]

RECURSIVE InsertKinds(_, _, _)
InsertKinds(d, kinds, k) ==
    IF k > Len(kinds) THEN d
    ELSE InsertKinds(InsertStructure(d, kinds[k].fu, Some(0),
                                     FormulaAtoms(kinds[k].fu)),
                     kinds, k + 1)

RECURSIVE RelaxKinds(_, _, _)
RelaxKinds(d, kinds, k) ==
    IF k > Len(kinds) THEN d
    ELSE RelaxKinds(IF kinds[k].result = None THEN d
                    ELSE UpdateDb(d, k + 1, kinds[k].result[1]),
                    kinds, k + 1)

\* Pool structures of the given kinds generated, then relaxed where the kind
\* has a result.
BuildDb(kinds) ==
    RelaxKinds(InsertKinds(<<PrimitiveCell>>, kinds, 1), kinds, 1)

Databases ==
    { BuildDb(kinds) : kinds \in UNION { [1..n -> RowKinds] : n \in 0..MaxRows } }

InitMinEnergy ==
    /\ Fresh
    /\ db \in Databases
    /\ lazySelect = FALSE
    /\ templateFiles \in BOOLEAN
    /\ cAu = 0
    /\ cCu = 0

NextMinEnergy ==
    \/ TemplatesCell
    \/ TemplatesCellNoFile
    \/ GsCellNoFile
    \/ MinEnergyStart
    \/ MinEnergyBlock
    \/ MinEnergyBlockRaises
    \/ MinEnergyView

SpecMinEnergy == InitMinEnergy /\ [][NextMinEnergy]_vars

\* --------------------------------------------------------------- claims
Range(q) == {q[i] : i \in 1..Len(q)}

C2_ConvergedMeansFmaxReached ==
    \A i \in InitialIds(db) : db[i].converged = Some(TRUE) => i \in fmaxReached

\* C3: every initial row with converged=True has started and queued emptied
\* and a final_struct_id naming an existing entry that holds an energy and has
\* the initial row's name.
C3_ConvergedRowHasResult ==
    \A i \in InitialIds(db) :
        db[i].converged = Some(TRUE) =>
            /\ db[i].started = None
            /\ db[i].queued = None
            /\ db[i].final_struct_id # None
            /\ db[i].final_struct_id[1] \in 1..Len(db)
            /\ db[db[i].final_struct_id[1]].energy # None
            /\ db[db[i].final_struct_id[1]].name = db[i].name

C3_Witness ==
    /\ \E i \in InitialIds(db) : db[i].converged = Some(TRUE)
    /\ \E i \in InitialIds(db) : db[i].converged = Some(FALSE)
    /\ relaxPc = "idle"

\* C4: a concentration pair is admitted by A_lb=[[2, 0]], b_lb=[1] iff by the
\* formula unit Au<x>Cu<1-x> with x in (0, 0.5) iff by the ranges
\* [(0, 0.5), (0.5, 1)], and that iff c_Au + c_Cu = 1 and 0 <= c_Au <= 0.5.
C4_ThreeSetupsAgree ==
    admitted # None =>
        /\ admitted[1].lb <=> admitted[1].formula
        /\ admitted[1].formula <=> admitted[1].ranges
        /\ admitted[1].formula <=>
              (cAu + cCu = Denom /\ 0 <= cAu /\ 2 * cAu <= Denom)

\* C5: the alpha given to set_fitting_scheme is alphas[i] for the first i
\* whose CV score is the lowest of the scan.
C5_AlphaHasLowestCv ==
    idx # 0 =>
        /\ idx \in 1..Len(cvs)
        /\ \A j \in 1..Len(cvs) : cvs[idx] <= cvs[j]
        /\ \A j \in 1..(idx - 1) : cvs[j] > cvs[idx]
        /\ alpha = alphas[idx]
        /\ eva.alpha = Some(alphas[idx])

C5_Witness ==
    /\ idx > 1
    /\ \E j \in (idx + 1)..Len(cvs) : cvs[j] = cvs[idx]

\* C6: the initial pool on the database of the settings cell is one structure
\* per extremum (pure Au, pure Cu) followed by 8 random structures:
\* generation 0 ends with exactly 10 initial structures, none converged.
C6_InitialPoolHasTenStructures ==
    /\ NumInGen(db, 0) <= StructPerGen
    /\ poolPc \in {"random", "done"} =>
          /\ db[2].formula_unit = Some("Au1")
          /\ db[3].formula_unit = Some("Cu1")
    /\ poolPc = "done" =>
          /\ NumInGen(db, 0) = 10
          /\ Len(db) = 11
          /\ \A i \in 4..11 : db[i].formula_unit[1] \in FormulaUnits
          /\ \A i \in 2..11 : IsInitial(db[i]) /\ db[i].converged = Some(FALSE)

C6_Witness ==
    /\ poolPc = "done"
    /\ NumInGen(db, 0) = StructPerGen

C8_FailuresStopTheCell ==
    /\ [](mePc = "failed" =>
            /\ Len(names) = meBlock - 1
            /\ \A k \in 1..Len(names) :
                 \E i \in InitialIds(db) :
                    /\ db[i].name = names[k]
                    /\ db[i].formula_unit = Some(BlockFormulas[k]))
    /\ [](eciFile = None => eci = None)
    /\ [](~templateFiles => template_list = None)
    /\ [][ /\ (mePc = "block" /\ BlockError(db, BlockFormulas[meBlock]) # "") =>
                /\ mePc' = "failed"
                /\ error' = BlockError(db, BlockFormulas[meBlock])
                /\ UNCHANGED <<names, images, db>>
           /\ mePc = "failed" =>
                \/ mePc' = "failed" /\ UNCHANGED <<names, images>>
                \/ mePc' = "block" /\ meBlock' = 1 /\ names' = <<>>
           /\ error' = "FileNotFoundError" =>
                UNCHANGED <<db, eci, template_list, names, images>> ]_vars

C8_Witness ==
    /\ mePc = "failed"
    /\ meBlock = 2
    /\ Len(names) = 1
    /\ error = "AttributeError"

\* C9: in one execution of the loop every row unconverged at its start is
\* relaxed exactly once, and no entry written during the loop is relaxed.
C9_EachRowRelaxedOnce ==
    /\ \A i, j \in 1..Len(relaxed) : i # j => relaxed[i] # relaxed[j]
    /\ \A i \in 1..Len(relaxed) :
          /\ relaxed[i] \in startUnconv
          /\ relaxed[i] <= startLen
    /\ relaxPc = "done" => Range(relaxed) = startUnconv

C9_Witness ==
    /\ relaxPc = "done"
    /\ lazySelect
    /\ Len(relaxed) >= 2
    /\ Len(db) > startLen

====
